---------------------------- MODULE Spec2Model ----------------------------
(***************************************************************************)
(* Two batch scripts of the ETL-workflows repository:                      *)
(*                                                                         *)
(*   SCD2/SCD2.py                   scd2_demo: source -> staging ->        *)
(*                                  historized target (SCD type 2)         *)
(*   Incremental Data Load/staging.py   source -> staging -> target with   *)
(*                                  a control table (watermark)            *)
(*                                                                         *)
(* Tables are sequences of rows in rowid / insertion order.  SQL's NULL is *)
(* the value NULL, and a comparison with NULL is never true.               *)
(***************************************************************************)
EXTENDS Integers, Sequences, FiniteSets

VARIABLES
    src,            \* SCD2.py: table src, cust_id -> row (cust_id is PRIMARY KEY)
    staging,        \* SCD2.py: table staging
    target,         \* SCD2.py: table target
    pc,             \* SCD2.py: the next step of scd2_demo
    before,         \* history: target as it was when the last version-apply began
    cycles,         \* history: number of version-applies completed
    src_jun25,      \* staging.py: table src_jun25, col1_id -> row
    stg_jun25,      \* staging.py: table stg_jun25
    tgt_jun25,      \* staging.py: table tgt_jun25, col1_id -> row (unique key)
    control_table,  \* staging.py: the rows of control_table for 'tgt_jun25'
    lpc,            \* staging.py: the next step of the main flow
    now,            \* staging.py: CURRENT_TIMESTAMP
    on_update,      \* staging.py: modified_date is ON UPDATE CURRENT_TIMESTAMP
    outcome,        \* history: how the last step of the main flow ended
    fails,          \* history: number of steps that have failed
    reruns,         \* history: number of times a script was run again
    writes          \* history: number of writes by other writers of the source

scd2vars == <<src, staging, target, pc, before, cycles>>

loadvars == <<src_jun25, stg_jun25, tgt_jun25, control_table, lpc, now,
              on_update, outcome, fails, reruns, writes>>

vars == <<src, staging, target, pc, before, cycles,
          src_jun25, stg_jun25, tgt_jun25, control_table, lpc, now,
          on_update, outcome, fails, reruns, writes>>

(***************************************************************************)
(* Bounds                                                                  *)
(***************************************************************************)
NumKeys == 2
NumPhones == 2
MaxCycles == 2

NULL == -1

Keys == 1..NumKeys
PhoneVals == 1..NumPhones
Phones == PhoneVals \cup {NULL}

(***************************************************************************)
(* SQL comparison: "a != b" is true only when neither side is NULL.        *)
(***************************************************************************)
SqlNeAnyValue(a, b) == a # NULL /\ b # NULL

SqlNe(a, b) == a # NULL /\ b # NULL /\ a # b

RECURSIVE SeqOfKeys(_)
SeqOfKeys(S) ==
    IF S = {} THEN <<>>
    ELSE LET k == CHOOSE x \in S : \A y \in S : x <= y
         IN  <<k>> \o SeqOfKeys(S \ {k})

RECURSIVE Concat(_)
Concat(ss) == IF ss = <<>> THEN <<>> ELSE Head(ss) \o Concat(Tail(ss))

(***************************************************************************)
(* SCD2.py steps 4 and 7: SELECT cust_id, phone_no, created_date,          *)
(* modified_date, modified_date, NULL FROM src                             *)
(***************************************************************************)
StagingRowBadStart(k, r) ==
    [cust_id |-> k, phone_no |-> r.phone_no, created_date |-> r.created_date,
     modified_date |-> r.modified_date, start_date |-> r.created_date,
     end_date |-> NULL]

StagingRow(k, r) ==
    [cust_id |-> k, phone_no |-> r.phone_no, created_date |-> r.created_date,
     modified_date |-> r.modified_date, start_date |-> r.modified_date,
     end_date |-> NULL]

LoadRows(source) ==
    LET ks == SeqOfKeys(DOMAIN source)
    IN  [i \in 1..Len(ks) |-> StagingRow(ks[i], source[ks[i]])]

(***************************************************************************)
(* SCD2.py step 8: UPDATE target SET end_date = (SELECT s.modified_date    *)
(* FROM staging s WHERE s.cust_id = target.cust_id AND s.phone_no !=       *)
(* target.phone_no) WHERE end_date IS NULL AND EXISTS (the same rows).     *)
(* The scalar subquery yields the first row the scan returns; with several *)
(* matching rows the scan order is not fixed, so any of them may be taken. *)
(***************************************************************************)
MatchesByKey(t, stg) ==
    {i \in 1..Len(stg) : stg[i].cust_id = t.cust_id}

Matches(t, stg) ==
    {i \in 1..Len(stg) : stg[i].cust_id = t.cust_id
                         /\ SqlNe(stg[i].phone_no, t.phone_no)}

CloseRowAgain(t, stg) ==
    IF Matches(t, stg) # {}
    THEN {[t EXCEPT !.end_date = stg[i].modified_date] : i \in Matches(t, stg)}
    ELSE {t}

CloseRow(t, stg) ==
    IF t.end_date = NULL /\ Matches(t, stg) # {}
    THEN {[t EXCEPT !.end_date = stg[i].modified_date] : i \in Matches(t, stg)}
    ELSE {t}

RECURSIVE CloseOutRows(_, _)
CloseOutRows(tgt, stg) ==
    IF tgt = <<>> THEN {<<>>}
    ELSE {<<r>> \o rest : r \in CloseRow(Head(tgt), stg),
                          rest \in CloseOutRows(Tail(tgt), stg)}

CloseOutSkipped(tgt, stg) == {tgt}

CloseOut(tgt, stg) == CloseOutRows(tgt, stg)

(***************************************************************************)
(* SCD2.py steps 5 and 9: INSERT INTO target SELECT s.* FROM staging s     *)
(* LEFT JOIN target t ON s.cust_id = t.cust_id AND t.end_date IS NULL      *)
(* WHERE t.cust_id IS NULL OR t.phone_no != s.phone_no.                    *)
(* The SELECT reads target as it is before the statement inserts.          *)
(***************************************************************************)
JoinedCurrent(s, tgt) ==
    SelectSeq(tgt, LAMBDA t : t.cust_id = s.cust_id /\ t.end_date = NULL)

JoinedAny(s, tgt) ==
    SelectSeq(tgt, LAMBDA t : t.cust_id = s.cust_id)

Joined(s, tgt) == JoinedCurrent(s, tgt)

SelectedCopiesAlways(s, tgt) == <<s>>

SelectedCopies(s, tgt) ==
    LET j == Joined(s, tgt)
    IN  IF j = <<>> THEN <<s>>
        ELSE [i \in 1..Len(SelectSeq(j, LAMBDA t : SqlNe(t.phone_no, s.phone_no)))
                |-> s]

InsertNew(tgt, stg) ==
    tgt \o Concat([i \in 1..Len(stg) |-> SelectedCopies(stg[i], tgt)])

(***************************************************************************)
(* Steps 8 and 9 together: the version-apply.                              *)
(***************************************************************************)
ApplyVersions(tgt, stg) == {InsertNew(u, stg) : u \in CloseOut(tgt, stg)}

(***************************************************************************)
(* scd2_demo                                                               *)
(***************************************************************************)
\* staging.py is not running
LoaderIdle ==
    /\ src_jun25 = <<>>
    /\ stg_jun25 = <<>>
    /\ tgt_jun25 = <<>>
    /\ control_table = <<>>
    /\ lpc = "idle"
    /\ now = 0
    /\ on_update = FALSE
    /\ outcome = "none"
    /\ fails = 0
    /\ reruns = 0
    /\ writes = 0

\* Steps 1-3: the tables are created empty and initial_data is inserted into
\* src; created_date and modified_date both default to CURRENT_TIMESTAMP.
InitSCD2 ==
    /\ src \in [Keys -> [phone_no : Phones, created_date : {0}, modified_date : {0}]]
    /\ staging = <<>>
    /\ target = <<>>
    /\ pc = "step4"
    /\ before = <<>>
    /\ cycles = 0
    /\ LoaderIdle

Step4 ==
    /\ pc = "step4"
    /\ staging' = staging \o LoadRows(src)
    /\ pc' = "step5"
    /\ UNCHANGED <<src, target, before, cycles>>
    /\ UNCHANGED loadvars

Step5 ==
    /\ pc = "step5"
    /\ target' = InsertNew(target, staging)
    /\ before' = target
    /\ pc' = "step6"
    /\ UNCHANGED <<src, staging, cycles>>
    /\ UNCHANGED loadvars

\* Step 6: UPDATE src SET phone_no = ? WHERE cust_id = ?; nothing stamps
\* modified_date.
Step6 ==
    /\ pc = "step6"
    /\ cycles < MaxCycles
    /\ \E k \in Keys, v \in Phones :
          src' = [src EXCEPT ![k].phone_no = v]
    /\ pc' = "step7"
    /\ UNCHANGED <<staging, target, before, cycles>>
    /\ UNCHANGED loadvars

\* The writers of the system of record the script stands in for: they change
\* the tracked attribute and stamp modified_date with the current time, which
\* is later than every time stamped in an earlier cycle.  One source change
\* per cycle, as in the script: this one or the unstamped one of step 6.
ExternalWriter ==
    /\ pc = "step6"
    /\ cycles < MaxCycles
    /\ \E k \in Keys, v \in Phones :
          src' = [src EXCEPT ![k].phone_no = v, ![k].modified_date = cycles + 1]
    /\ pc' = "step7"
    /\ UNCHANGED <<staging, target, before, cycles>>
    /\ UNCHANGED loadvars

Step7 ==
    /\ pc = "step7"
    /\ staging' = LoadRows(src)
    /\ pc' = "step8"
    /\ UNCHANGED <<src, target, before, cycles>>
    /\ UNCHANGED loadvars

Step8 ==
    /\ pc = "step8"
    /\ target' \in CloseOut(target, staging)
    /\ before' = target
    /\ pc' = "step9"
    /\ UNCHANGED <<src, staging, cycles>>
    /\ UNCHANGED loadvars

Step9 ==
    /\ pc = "step9"
    /\ target' = InsertNew(target, staging)
    /\ cycles' = cycles + 1
    /\ pc' = "step6"
    /\ UNCHANGED <<src, staging, before>>
    /\ UNCHANGED loadvars

NextSCD2 ==
    \/ Step4
    \/ Step5
    \/ Step6
    \/ ExternalWriter
    \/ Step7
    \/ Step8
    \/ Step9

SpecSCD2 == InitSCD2 /\ [][NextSCD2]_vars


(***************************************************************************)
(* The same script fed by a delta: the staging reload keeps only some of   *)
(* the source rows, as the incremental load of the pipeline does, so that  *)
(* a key of the target may have no row in staging.                         *)
(***************************************************************************)
RECURSIVE SubSeqs(_)
SubSeqs(s) ==
    IF s = <<>> THEN {<<>>}
    ELSE LET rest == SubSeqs(Tail(s))
         IN  rest \cup {<<Head(s)>> \o r : r \in rest}

Step7Delta ==
    /\ pc = "step7"
    /\ staging' \in SubSeqs(LoadRows(src))
    /\ pc' = "step8"
    /\ UNCHANGED <<src, target, before, cycles>>
    /\ UNCHANGED loadvars

\* The reload of step 7 is the case of Step7Delta that keeps every row.
NextDelta ==
    \/ Step4
    \/ Step5
    \/ Step6
    \/ Step7Delta
    \/ Step8
    \/ Step9

SpecDelta == InitSCD2 /\ [][NextDelta]_vars

(***************************************************************************)
(* Properties of the historized target                                     *)
(***************************************************************************)
RowsOf(tgt, k) == {i \in 1..Len(tgt) : tgt[i].cust_id = k}

CurrentOf(tgt, k) == {i \in RowsOf(tgt, k) : tgt[i].end_date = NULL}

\* i and j are versions of one key with no version of that key between them
Adjacent(tgt, i, j) ==
    /\ i < j
    /\ tgt[i].cust_id = tgt[j].cust_id
    /\ \A m \in (i + 1)..(j - 1) : tgt[m].cust_id # tgt[i].cust_id

StagingKeys == {staging[i].cust_id : i \in 1..Len(staging)}

\* a version-apply (step 5, or steps 8 and 9) has just completed
Applied == pc = "step6"

\* C1: single-current invariant.  In every state of the historized target,
\* every key has at most one row whose end_date is NULL.
C1_SingleCurrent ==
    \A k \in Keys : Cardinality(CurrentOf(target, k)) <= 1

C1_Witness ==
    /\ Applied
    /\ cycles >= 1
    /\ \E k \in Keys :
          /\ Cardinality(CurrentOf(target, k)) = 1
          /\ \E i \in RowsOf(target, k) : target[i].end_date # NULL

\* C2: contiguity invariant.  For every key, versions come in start order
\* and each version's end_date equals the start_date of the next version of
\* that key: the close-out timestamp is the start of the new version.
C2_Contiguity ==
    \A i, j \in 1..Len(target) :
        Adjacent(target, i, j) =>
            /\ target[i].end_date = target[j].start_date
            /\ target[i].start_date <= target[j].start_date

C2_Witness ==
    \E i, j \in 1..Len(target) :
        /\ Adjacent(target, i, j)
        /\ target[i].start_date < target[j].start_date
        /\ target[i].end_date = target[j].start_date
        /\ target[j].end_date = NULL

\* C3: idempotence of the version-apply.  Once steps 8 and 9 have run,
\* running them again with the same staging content can only give the
\* target as it is: no row is added and none is changed.
C3_Idempotent ==
    Applied => ApplyVersions(target, staging) = {target}

C3_Witness ==
    /\ Applied
    /\ cycles >= 1
    /\ Len(target) > Len(before)
    /\ \E i \in 1..Len(before) : before[i] # target[i]
    /\ ApplyVersions(target, staging) = {target}

\* the staging row s carries a value that differs from the one of the
\* current version tgt[i] of its key
Changed(tgt, i, s) ==
    /\ tgt[i].cust_id = s.cust_id
    /\ tgt[i].end_date = NULL
    /\ tgt[i].phone_no # NULL
    /\ s.phone_no # NULL
    /\ tgt[i].phone_no # s.phone_no

NewRowsOf(k) == {i \in (Len(before) + 1)..Len(target) : target[i].cust_id = k}

\* C4: change rule.  When the version-apply began with a current version
\* whose phone_no differs from the staging row's phone_no (both not NULL),
\* that version now has end_date = the staging row's start_date and is
\* otherwise as it was, and exactly one row was inserted for the key: the
\* staging row, with start_date = its start marker and end_date NULL.
C4_ChangeRule ==
    Applied =>
        \A n \in 1..Len(staging) : \A i \in 1..Len(before) :
            Changed(before, i, staging[n]) =>
                /\ target[i] = [before[i] EXCEPT !.end_date = staging[n].start_date]
                /\ Cardinality(NewRowsOf(staging[n].cust_id)) = 1
                /\ \A m \in NewRowsOf(staging[n].cust_id) :
                      /\ target[m] = staging[n]
                      /\ target[m].start_date = staging[n].start_date
                      /\ target[m].end_date = NULL

C4_Witness ==
    /\ Applied
    /\ \E n \in 1..Len(staging) : \E i \in 1..Len(before) :
          /\ Changed(before, i, staging[n])
          /\ before[i].start_date < staging[n].start_date
          /\ target[i].end_date = staging[n].start_date
          /\ \E m \in NewRowsOf(staging[n].cust_id) : target[m] = staging[n]
    /\ \E k \in Keys :
          /\ RowsOf(target, k) # {}
          /\ \A i \in RowsOf(target, k) : i <= Len(before) /\ target[i] = before[i]

\* the key k has a current version whose value is the staging row's value
Unchanged(tgt, k) ==
    \E n \in 1..Len(staging) : \E i \in CurrentOf(tgt, k) :
        /\ staging[n].cust_id = k
        /\ tgt[i].phone_no = staging[n].phone_no

\* C5: no-op rule.  The version-apply writes nothing for a key whose current
\* version already has the staging row's phone_no, and nothing for a key of
\* the target with no row in staging: the rows of such a key are as they
\* were and no row was inserted for it.
C5_NoOp ==
    Applied =>
        \A k \in Keys :
            (Unchanged(before, k) \/ (k \notin StagingKeys /\ RowsOf(before, k) # {})) =>
                /\ \A i \in RowsOf(before, k) : target[i] = before[i]
                /\ NewRowsOf(k) = {}

C5_Witness ==
    /\ Applied
    /\ cycles >= 1
    /\ \E k1, k2 \in Keys :
          /\ k1 \notin StagingKeys
          /\ RowsOf(before, k1) # {}
          /\ RowsOf(target, k1) = RowsOf(before, k1)
          /\ Unchanged(before, k2)
          /\ RowsOf(target, k2) = RowsOf(before, k2)


(***************************************************************************)
(* Incremental Data Load/staging.py                                        *)
(*                                                                         *)
(* The statements name col1_id, col2_desc and col3_desc only; col2_desc    *)
(* and col3_desc are always read and written together and are one field,  *)
(* desc, here.  No INSERT names created_date or modified_date, so a new    *)
(* row of stg_jun25 or tgt_jun25 takes the time of its insert; whether an  *)
(* UPDATE stamps modified_date is on_update, fixed by the table            *)
(* definitions.                                                            *)
(***************************************************************************)
MaxTime == 1
MaxReruns == 1
MaxWrites == 1
MaxFails == 1

\* The values of (col2_desc, col3_desc): the one the script writes (lines
\* 138-139) and the one the source rows hold before it.
Joshua == "Joshua"

Descs == {"initial", Joshua}

SqlGt(a, b) == a # NULL /\ b # NULL /\ a > b

\* MAX(col) of a set of values: NULL when there is no row
SqlMax(S) == IF S = {} THEN NULL ELSE CHOOSE x \in S : \A y \in S : y <= x

Later(t) == IF t < MaxTime THEN {t, t + 1} ELSE {t}

NewRow(k, d, t) ==
    [col1_id |-> k, desc |-> d, created_date |-> t, modified_date |-> t]

\* SELECT col1_id, col2_desc, col3_desc FROM src_jun25
FullSelect(source) ==
    LET ks == SeqOfKeys(DOMAIN source)
    IN  [i \in 1..Len(ks) |-> NewRow(ks[i], source[ks[i]].desc, now)]

\* WHERE s.created_date > c.max_created_date
\*    OR s.modified_date > c.max_modified_date
QualifiesBoth(s, c) ==
    /\ SqlGt(s.created_date, c.max_created_date)
    /\ SqlGt(s.modified_date, c.max_modified_date)

Qualifies(s, c) ==
    \/ SqlGt(s.created_date, c.max_created_date)
    \/ SqlGt(s.modified_date, c.max_modified_date)

\* SELECT ... FROM src_jun25 s JOIN control_table c ON c.table_name =
\* 'tgt_jun25' WHERE ...: one row for every pair (s, c) that qualifies
DeltaSelect(source, control) ==
    LET ks == SeqOfKeys(DOMAIN source)
        pairs(k) == SelectSeq(control, LAMBDA c : Qualifies(source[k], c))
    IN  Concat([i \in 1..Len(ks) |->
                  [j \in 1..Len(pairs(ks[i])) |->
                      NewRow(ks[i], source[ks[i]].desc, now)]])

\* INSERT ... ON DUPLICATE KEY UPDATE col2_desc = VALUES(col2_desc),
\* col3_desc = VALUES(col3_desc), for one selected row
\* REPLACE INTO: the row of the key is deleted and inserted again
UpsertReplace(tgt, s) ==
    [k \in DOMAIN tgt \cup {s.col1_id} |->
        IF k = s.col1_id
        THEN [desc |-> s.desc, created_date |-> now, modified_date |-> now]
        ELSE tgt[k]]

\* INSERT IGNORE: the row of an existing key is left as it is
UpsertIgnore(tgt, s) ==
    IF s.col1_id \in DOMAIN tgt
    THEN tgt
    ELSE [k \in DOMAIN tgt \cup {s.col1_id} |->
            IF k = s.col1_id
            THEN [desc |-> s.desc, created_date |-> now, modified_date |-> now]
            ELSE tgt[k]]

Upsert(tgt, s) ==
    IF s.col1_id \in DOMAIN tgt
    THEN [tgt EXCEPT ![s.col1_id] =
            [desc |-> s.desc,
             created_date |-> @.created_date,
             modified_date |-> IF on_update /\ @.desc # s.desc
                               THEN now ELSE @.modified_date]]
    ELSE [k \in DOMAIN tgt \cup {s.col1_id} |->
            IF k = s.col1_id
            THEN [desc |-> s.desc, created_date |-> now, modified_date |-> now]
            ELSE tgt[k]]

RECURSIVE UpsertAll(_, _)
UpsertAll(tgt, stg) ==
    IF stg = <<>> THEN tgt ELSE UpsertAll(Upsert(tgt, Head(stg)), Tail(stg))

\* UPDATE control_table SET max_created_date = c, max_modified_date = m
\* WHERE table_name = 'tgt_jun25'
SetControl(control, c, m) ==
    [i \in 1..Len(control) |-> [max_created_date |-> c, max_modified_date |-> m]]

\* SELECT MAX(created_date) FROM stg_jun25, and the like
StgMaxCreated == SqlMax({stg_jun25[i].created_date : i \in 1..Len(stg_jun25)})

StgMaxModified == SqlMax({stg_jun25[i].modified_date : i \in 1..Len(stg_jun25)})

TgtMaxCreated == SqlMax({tgt_jun25[k].created_date : k \in DOMAIN tgt_jun25})

TgtMaxModified == SqlMax({tgt_jun25[k].modified_date : k \in DOMAIN tgt_jun25})

\* The tables as the script finds them: the source holds rows written
\* before it started, staging, target and control table are empty.
InitLoad ==
    /\ src_jun25 = [k \in Keys |-> [desc |-> "initial", created_date |-> 0, modified_date |-> 0]]
    /\ stg_jun25 = <<>>
    /\ tgt_jun25 = <<>>
    /\ control_table = <<>>
    /\ lpc = "step1"
    /\ now = 0
    /\ on_update \in BOOLEAN
    /\ outcome = "none"
    /\ fails = 0
    /\ reruns = 0
    /\ writes = 0
    /\ src = <<>>
    /\ staging = <<>>
    /\ target = <<>>
    /\ pc = "idle"
    /\ before = <<>>
    /\ cycles = 0

\* A step of the main flow ends: the except clause logs, rolls back and
\* returns, so the main flow goes on to the next step either way.
Ends(next, how) ==
    /\ how # "ok" => fails < MaxFails
    /\ lpc' = next
    /\ outcome' = how
    /\ fails' = IF how = "ok" THEN fails ELSE fails + 1
    /\ now' \in Later(now)
    /\ UNCHANGED <<on_update, reruns, writes>>
    /\ UNCHANGED scd2vars

insert_data_to_staging ==
    /\ lpc = "step1"
    /\ \E how \in {"ok", "error"} :
          /\ stg_jun25' = IF how = "ok" THEN stg_jun25 \o FullSelect(src_jun25)
                                        ELSE stg_jun25
          /\ Ends("step2", how)
    /\ UNCHANGED <<src_jun25, tgt_jun25, control_table>>

insert_data_to_control ==
    /\ lpc = "step2"
    /\ \E how \in {"ok", "error"} :
          /\ control_table' =
                IF how = "ok"
                THEN Append(control_table,
                            [max_created_date |-> now, max_modified_date |-> now])
                ELSE control_table
          /\ Ends("step3", how)
    /\ UNCHANGED <<src_jun25, stg_jun25, tgt_jun25>>

\* UPDATE src_jun25 SET col2_desc = 'Joshua', col3_desc = 'Pro player'
\* WHERE col1_id = 4: one fixed row of the source gets one fixed value, which
\* is not the value it has when the script first runs.  MySQL stamps an ON
\* UPDATE CURRENT_TIMESTAMP column only when the row's values change.
ChangedId == NumKeys

SimulatedChange(source, k, d) ==
    IF k \in DOMAIN source
    THEN [source EXCEPT ![k] =
            [desc |-> d,
             created_date |-> @.created_date,
             modified_date |-> IF on_update /\ @.desc # d
                               THEN now ELSE @.modified_date]]
    ELSE source

\* Two transactions: the control table update is committed (line 125) before
\* the source update is executed (line 141) and committed (line 149).
update_control_table_stg ==
    /\ lpc = "step3"
    /\ \E how \in {"ok", "error", "error after commit"} :
          /\ control_table' =
                IF how = "error" THEN control_table
                ELSE SetControl(control_table, StgMaxCreated, StgMaxModified)
          /\ src_jun25' = IF how = "ok"
                           THEN SimulatedChange(src_jun25, ChangedId, Joshua)
                           ELSE src_jun25
          /\ Ends("step4", how)
    /\ UNCHANGED <<stg_jun25, tgt_jun25>>

insert_into_stg ==
    /\ lpc = "step4"
    /\ \E how \in {"ok", "error"} :
          /\ stg_jun25' =
                IF how = "ok"
                THEN stg_jun25 \o DeltaSelect(src_jun25, control_table)
                ELSE stg_jun25
          /\ Ends("step5", how)
    /\ UNCHANGED <<src_jun25, tgt_jun25, control_table>>

push_to_target_table ==
    /\ lpc = "step5"
    /\ \E how \in {"ok", "error"} :
          /\ tgt_jun25' = IF how = "ok" THEN UpsertAll(tgt_jun25, stg_jun25)
                                        ELSE tgt_jun25
          /\ Ends("step6", how)
    /\ UNCHANGED <<src_jun25, stg_jun25, control_table>>

update_control_table_tgt ==
    /\ lpc = "step6"
    /\ \E how \in {"ok", "error"} :
          /\ control_table' =
                IF how = "ok"
                THEN SetControl(control_table, TgtMaxCreated, TgtMaxModified)
                ELSE control_table
          /\ Ends("done", how)
    /\ UNCHANGED <<src_jun25, stg_jun25, tgt_jun25>>

\* The script is run again on the same database.  The time that passes
\* between two runs is the time that passes at the end of the last step.
RunAgain ==
    /\ lpc = "done"
    /\ reruns < MaxReruns
    /\ lpc' = "step1"
    /\ reruns' = reruns + 1
    /\ outcome' = "none"
    /\ UNCHANGED <<src_jun25, stg_jun25, tgt_jun25, control_table, now,
                   on_update, fails, writes>>
    /\ UNCHANGED scd2vars

\* Another writer of the source, at any point of the main flow: it inserts a
\* row or updates one in place and stamps it with the current time.
SourceWriter ==
    /\ lpc # "done"
    /\ writes < MaxWrites
    /\ \E k \in Keys, d \in Descs :
          src_jun25' = [src_jun25 EXCEPT ![k] =
                          [@ EXCEPT !.desc = d, !.modified_date = now]]
    /\ writes' = writes + 1
    /\ UNCHANGED <<stg_jun25, tgt_jun25, control_table, lpc, now, on_update,
                   outcome, fails, reruns>>
    /\ UNCHANGED scd2vars

NextLoad ==
    \/ insert_data_to_staging
    \/ insert_data_to_control
    \/ update_control_table_stg
    \/ insert_into_stg
    \/ push_to_target_table
    \/ update_control_table_tgt
    \/ RunAgain
    \/ SourceWriter

SpecLoad == InitLoad /\ [][NextLoad]_vars


(***************************************************************************)
(* Properties of the incremental load                                      *)
(***************************************************************************)
ControlRows == 1..Len(control_table)

\* the step at label l has just committed its write
Committed(l, next) == lpc = l /\ lpc' = next /\ outcome' = "ok"

\* C6: watermark monotonicity.  No step lowers max_created_date or
\* max_modified_date of a control row: a lower computed value is skipped.
C6_Monotone ==
    [][\A i \in ControlRows :
          i <= Len(control_table') =>
             /\ control_table'[i].max_created_date # NULL
             /\ control_table'[i].max_created_date
                   >= control_table[i].max_created_date
             /\ control_table'[i].max_modified_date # NULL
             /\ control_table'[i].max_modified_date
                   >= control_table[i].max_modified_date]_vars

\* the source row s is newer than the stored watermark c
Newer(s, c) ==
    \/ c.max_created_date # NULL /\ s.created_date > c.max_created_date
    \/ c.max_modified_date # NULL /\ s.modified_date > c.max_modified_date

\* C7: delta completeness.  When insert_into_stg commits, every source row
\* whose created_date is greater than the stored max_created_date, or whose
\* modified_date is greater than the stored max_modified_date, has a row
\* in staging, inserted by this load with the source row's values.
C7_DeltaComplete ==
    [][Committed("step4", "step5") =>
          \A k \in DOMAIN src_jun25 : \A i \in ControlRows :
              Newer(src_jun25[k], control_table[i]) =>
                  \E n \in (Len(stg_jun25) + 1)..Len(stg_jun25') :
                      /\ stg_jun25'[n].col1_id = k
                      /\ stg_jun25'[n].desc = src_jun25[k].desc]_vars

C7_Witness ==
    /\ lpc = "step5"
    /\ outcome = "ok"
    /\ reruns = 0
    /\ writes = 0
    /\ Len(control_table) = 1
    /\ Newer(src_jun25[ChangedId], control_table[1])
    /\ src_jun25[ChangedId].created_date <= control_table[1].max_created_date
    /\ \E n \in 1..Len(stg_jun25) :
          /\ stg_jun25[n].col1_id = ChangedId
          /\ stg_jun25[n].desc = Joshua
    /\ \E k \in DOMAIN src_jun25 :
          /\ ~Newer(src_jun25[k], control_table[1])
          /\ Cardinality({n \in 1..Len(stg_jun25) : stg_jun25[n].col1_id = k}) <= 1

\* C8: staging is replaced, not appended.  When a load commits, staging
\* holds exactly the rows that load selected and none from an earlier load.
C8_Replaced ==
    [][/\ Committed("step1", "step2") => stg_jun25' = FullSelect(src_jun25)
       /\ Committed("step4", "step5") =>
             stg_jun25' = DeltaSelect(src_jun25, control_table)]_vars

\* the source row of key k has been written to the target
InTarget(k) ==
    /\ k \in DOMAIN tgt_jun25
    /\ tgt_jun25[k].desc = src_jun25[k].desc

\* C9: watermark invariant.  Every source row whose created_date or
\* modified_date is not later than the stored watermark has already been
\* written to the target.
C9_WatermarkBehindTarget ==
    \A i \in ControlRows : \A k \in DOMAIN src_jun25 :
        (\/ /\ control_table[i].max_created_date # NULL
            /\ src_jun25[k].created_date <= control_table[i].max_created_date
         \/ /\ control_table[i].max_modified_date # NULL
            /\ src_jun25[k].modified_date <= control_table[i].max_modified_date)
        => InTarget(k)

\* C10: a failed step aborts the cycle.  After a step whose write failed, no
\* later step of the run is taken and staging, target and watermark stay as
\* they are.
C10_FailureAborts ==
    [][(outcome \in {"error", "error after commit"} /\ lpc # "done") =>
          /\ lpc' = lpc
          /\ stg_jun25' = stg_jun25
          /\ tgt_jun25' = tgt_jun25
          /\ control_table' = control_table]_vars


(***************************************************************************)
(* Atomicity of the steps                                                  *)
(***************************************************************************)
\* a step of the main flow has just ended in its except clause
Failed == lpc' # lpc /\ outcome' \in {"error", "error after commit"}

\* C11: step atomicity.  Each step is one transaction: a step that fails
\* partway leaves the source, staging, target and control table as they were
\* before it, and never commits a part of its writes.
C11_StepAtomic ==
    [][Failed =>
          /\ src_jun25' = src_jun25
          /\ stg_jun25' = stg_jun25
          /\ tgt_jun25' = tgt_jun25
          /\ control_table' = control_table]_vars


(***************************************************************************)
(* A crash of the incremental load and its rerun                           *)
(*                                                                         *)
(* The tables of staging.py live in the MySQL server and outlive the       *)
(* process; every write that was committed stays.  The script has one      *)
(* entry point, so a rerun starts at its first step.                       *)
(***************************************************************************)
\* The process dies between two steps of the main flow and the script is
\* started again on the same database.
Crash ==
    /\ lpc \in {"step2", "step3", "step4", "step5", "step6"}
    /\ reruns < MaxReruns
    /\ lpc' = "step1"
    /\ reruns' = reruns + 1
    /\ outcome' = "none"
    /\ UNCHANGED <<src_jun25, stg_jun25, tgt_jun25, control_table, now,
                   on_update, fails, writes>>
    /\ UNCHANGED scd2vars

\* No step fails and nobody else writes the source.
InitRetry ==
    /\ src_jun25 = [k \in Keys |-> [desc |-> "initial", created_date |-> 0, modified_date |-> 0]]
    /\ stg_jun25 = <<>>
    /\ tgt_jun25 = <<>>
    /\ control_table = <<>>
    /\ lpc = "step1"
    /\ now = 0
    /\ on_update \in BOOLEAN
    /\ outcome = "none"
    /\ fails = MaxFails
    /\ reruns = 0
    /\ writes = MaxWrites
    /\ src = <<>>
    /\ staging = <<>>
    /\ target = <<>>
    /\ pc = "idle"
    /\ before = <<>>
    /\ cycles = 0

NextRetry ==
    \/ insert_data_to_staging
    \/ insert_data_to_control
    \/ update_control_table_stg
    \/ insert_into_stg
    \/ push_to_target_table
    \/ update_control_table_tgt
    \/ Crash

SpecRetry == InitRetry /\ [][NextRetry]_vars


\* The cycle that runs without a crash, every step of it in the second
\* `now`: the tables after each of its steps.
CleanSource ==
    [k \in Keys |-> [desc |-> "initial", created_date |-> 0, modified_date |-> 0]]

CleanFull == FullSelect(CleanSource)

CleanControl ==
    SetControl(<<[max_created_date |-> now, max_modified_date |-> now]>>,
               SqlMax({CleanFull[i].created_date : i \in 1..Len(CleanFull)}),
               SqlMax({CleanFull[i].modified_date : i \in 1..Len(CleanFull)}))

CleanStaging ==
    CleanFull \o DeltaSelect(SimulatedChange(CleanSource, ChangedId, Joshua),
                             CleanControl)

CleanTarget == UpsertAll(<<>>, CleanStaging)

CleanWatermark ==
    [max_created_date |->
        SqlMax({CleanTarget[k].created_date : k \in DOMAIN CleanTarget}),
     max_modified_date |->
        SqlMax({CleanTarget[k].modified_date : k \in DOMAIN CleanTarget})]

\* C12: retry safety.  A run that ends, after a crash at a step boundary and
\* a rerun from the first step, ends with the target and the watermark of
\* the run without a crash (stated for runs within one second, where the
\* run without a crash has one result).
C12_RetrySafe ==
    (lpc = "done" /\ now = 0) =>
        /\ tgt_jun25 = CleanTarget
        /\ \A i \in ControlRows : control_table[i] = CleanWatermark

\* the runs without a crash do end in that target and watermark
CleanRunEnds ==
    (lpc = "done" /\ now = 0 /\ reruns = 0) =>
        /\ tgt_jun25 = CleanTarget
        /\ \A i \in ControlRows : control_table[i] = CleanWatermark


(***************************************************************************)
(* Staging as a change log                                                 *)
(*                                                                         *)
(* Steps 8 and 9 are statements over whatever the staging table holds.     *)
(* Staging holds several rows of one key when a load adds to it without   *)
(* the DELETE of step 7, as the load of step 4 does.                       *)
(***************************************************************************)
\* INSERT INTO staging SELECT ... FROM src (lines 105-113), on a staging
\* table that holds the rows of the load before
Step4Again ==
    /\ pc = "step7"
    /\ staging' = staging \o LoadRows(src)
    /\ pc' = "step8"
    /\ UNCHANGED <<src, target, before, cycles>>
    /\ UNCHANGED loadvars

NextMulti ==
    \/ Step4
    \/ Step5
    \/ Step6
    \/ ExternalWriter
    \/ Step4Again
    \/ Step8
    \/ Step9

SpecMulti == InitSCD2 /\ [][NextMulti]_vars

StagingRowsOf(k) == {n \in 1..Len(staging) : staging[n].cust_id = k}

\* the row of key k that was observed last
LastObserved(k) ==
    staging[CHOOSE n \in StagingRowsOf(k) : \A m \in StagingRowsOf(k) : m <= n]

\* C13: several staging rows of one key.  The version-apply versions the
\* value observed last: a current version with another value is closed with
\* that row's start_date, and at most one row is inserted for the key, with
\* that row's values.
C13_LastObserved ==
    Applied =>
        \A k \in Keys :
            Cardinality(StagingRowsOf(k)) > 1 =>
                /\ Cardinality(NewRowsOf(k)) <= 1
                /\ \A m \in NewRowsOf(k) : target[m] = LastObserved(k)
                /\ \A i \in 1..Len(before) :
                      Changed(before, i, LastObserved(k)) =>
                         /\ target[i].end_date = LastObserved(k).start_date
                         /\ Cardinality(NewRowsOf(k)) = 1


(***************************************************************************)
(* NULL values of the tracked attribute                                    *)
(***************************************************************************)
\* row i of tgt is the current version of the staging row's key, and one of
\* the two values of phone_no is NULL and the other is not
NullChanged(tgt, i, s) ==
    /\ tgt[i].cust_id = s.cust_id
    /\ tgt[i].end_date = NULL
    /\ (tgt[i].phone_no = NULL) # (s.phone_no = NULL)

\* C14: NULL tracked attribute.  When the version-apply began with a current
\* version whose phone_no is NULL while the staging row's is not (or the
\* reverse), the change rule was followed: that version now has end_date =
\* the staging row's start_date, and exactly one row was inserted for the
\* key, the staging row.
C14_NullIsChange ==
    Applied =>
        \A n \in 1..Len(staging) : \A i \in 1..Len(before) :
            NullChanged(before, i, staging[n]) =>
                /\ target[i] = [before[i] EXCEPT !.end_date = staging[n].start_date]
                /\ Cardinality(NewRowsOf(staging[n].cust_id)) = 1
                /\ \A m \in NewRowsOf(staging[n].cust_id) : target[m] = staging[n]


(***************************************************************************)
(* A crash of scd2_demo and its rerun                                      *)
(*                                                                         *)
(* scd2_demo keeps its tables in an in-memory database (line 46): when the *)
(* process dies the tables are gone, and a rerun creates them empty and    *)
(* inserts initial_data again (lines 52-99).                               *)
(***************************************************************************)
\* initial_data, the rows the script inserts into src: the first version
\* of every key in the target is a copy of its row
InitialData ==
    [k \in Keys |->
        [phone_no |-> target[CHOOSE i \in RowsOf(target, k) :
                               \A j \in RowsOf(target, k) : i <= j].phone_no,
         created_date |-> 0, modified_date |-> 0]]

\* The process dies after the close-out of step 8 was committed and before
\* the insert of step 9, and the script is started again.
CrashSCD2 ==
    /\ pc = "step9"
    /\ reruns < MaxReruns
    /\ reruns' = reruns + 1
    /\ src' = InitialData
    /\ staging' = <<>>
    /\ target' = <<>>
    /\ pc' = "step4"
    /\ before' = <<>>
    /\ cycles' = 0
    /\ UNCHANGED <<src_jun25, stg_jun25, tgt_jun25, control_table, lpc, now,
                   on_update, outcome, fails, writes>>

NextCrash ==
    \/ Step4
    \/ Step5
    \/ Step6
    \/ Step7
    \/ Step8
    \/ Step9
    \/ CrashSCD2

SpecCrash == InitSCD2 /\ [][NextCrash]_vars

\* C15: adjacent versions differ.  Two versions of a key that follow one
\* another in start order (the order of their insertion) never have the
\* same phone_no, also when the script crashed between the close-out and
\* the insert and was run again.
C15_AdjacentDiffer ==
    \A i, j \in 1..Len(target) :
        Adjacent(target, i, j) => target[i].phone_no # target[j].phone_no

C15_Witness ==
    /\ reruns >= 1
    /\ Applied
    /\ \E i, j \in 1..Len(target) :
          /\ Adjacent(target, i, j)
          /\ target[i].phone_no # target[j].phone_no
          /\ target[i].end_date = target[j].start_date
          /\ target[j].end_date = NULL


(***************************************************************************)
(* The incremental load when no statement fails                            *)
(***************************************************************************)
InitNoFail ==
    /\ src_jun25 = [k \in Keys |-> [desc |-> "initial", created_date |-> 0, modified_date |-> 0]]
    /\ stg_jun25 = <<>>
    /\ tgt_jun25 = <<>>
    /\ control_table = <<>>
    /\ lpc = "step1"
    /\ now = 0
    /\ on_update \in BOOLEAN
    /\ outcome = "none"
    /\ fails = MaxFails
    /\ reruns = 0
    /\ writes = 0
    /\ src = <<>>
    /\ staging = <<>>
    /\ target = <<>>
    /\ pc = "idle"
    /\ before = <<>>
    /\ cycles = 0

SpecNoFail == InitNoFail /\ [][NextLoad]_vars

\* C16: an empty delta is a no-op.  When no source row qualifies, the
\* incremental load leaves staging empty; the merge of an empty staging
\* leaves the target as it is; and the watermark update that follows leaves
\* every control row at a value that is not NULL and not lower than before.
C16_EmptyDeltaNoOp ==
    [][/\ (Committed("step4", "step5") /\ DeltaSelect(src_jun25, control_table) = <<>>)
            => stg_jun25' = <<>>
       /\ (Committed("step5", "step6") /\ stg_jun25 = <<>>)
            => tgt_jun25' = tgt_jun25
       /\ (Committed("step6", "done") /\ stg_jun25 = <<>>)
            => \A i \in ControlRows :
                  /\ control_table'[i].max_created_date # NULL
                  /\ control_table'[i].max_created_date
                        >= control_table[i].max_created_date
                  /\ control_table'[i].max_modified_date # NULL
                  /\ control_table'[i].max_modified_date
                        >= control_table[i].max_modified_date]_vars


(***************************************************************************)
(* The merge into a target that holds rows already                         *)
(*                                                                         *)
(* src_jun25 and tgt_jun25 are tables of the MySQL server that the script  *)
(* does not create: the source holds the rows written so far, and the      *)
(* target may hold rows of keys when the script starts.  No statement      *)
(* fails and nobody else writes.                                           *)
(***************************************************************************)
InitMerge ==
    /\ \E S \in SUBSET Keys :
          /\ S # {}
          /\ src_jun25 = [k \in S |-> [desc |-> "initial", created_date |-> 0, modified_date |-> 0]]
    /\ stg_jun25 = <<>>
    /\ \E T \in SUBSET Keys :
          tgt_jun25 \in [T -> [desc : Descs, created_date : {0}, modified_date : {0}]]
    /\ control_table = <<>>
    /\ lpc = "step1"
    /\ now = 0
    /\ on_update \in BOOLEAN
    /\ outcome = "none"
    /\ fails = MaxFails
    /\ reruns = MaxReruns
    /\ writes = MaxWrites
    /\ src = <<>>
    /\ staging = <<>>
    /\ target = <<>>
    /\ pc = "idle"
    /\ before = <<>>
    /\ cycles = 0

NextMerge ==
    \/ insert_data_to_staging
    \/ insert_data_to_control
    \/ update_control_table_stg
    \/ insert_into_stg
    \/ push_to_target_table
    \/ update_control_table_tgt

SpecMerge == InitMerge /\ [][NextMerge]_vars

\* the rows of a target: key, col2_desc and col3_desc, created_date
Content(tgt) ==
    [k \in DOMAIN tgt |-> [desc |-> tgt[k].desc, created_date |-> tgt[k].created_date]]

StgKeys == {stg_jun25[n].col1_id : n \in 1..Len(stg_jun25)}

\* the row of key k that the merge reads last
LastStaged(k) ==
    stg_jun25[CHOOSE n \in 1..Len(stg_jun25) :
                /\ stg_jun25[n].col1_id = k
                /\ \A m \in (n + 1)..Len(stg_jun25) : stg_jun25[m].col1_id # k]

C18_MergeResult ==
    [][Committed("step5", "step6") =>
          /\ DOMAIN tgt_jun25' = DOMAIN tgt_jun25 \cup StgKeys
          /\ \A k \in StgKeys :
                /\ tgt_jun25'[k].desc = LastStaged(k).desc
                /\ k \in DOMAIN tgt_jun25 =>
                      tgt_jun25'[k].created_date = tgt_jun25[k].created_date
          /\ \A k \in DOMAIN tgt_jun25 \ StgKeys :
                tgt_jun25'[k] = tgt_jun25[k]]_vars

C18_Witness ==
    /\ lpc = "step6"
    /\ outcome = "ok"
    /\ now > 0
    /\ \E k \in StgKeys :
          /\ tgt_jun25[k].desc = LastStaged(k).desc
          /\ tgt_jun25[k].created_date < tgt_jun25[k].modified_date
    /\ \E k \in DOMAIN tgt_jun25 :
          /\ k \notin StgKeys
          /\ tgt_jun25[k].desc = Joshua


(***************************************************************************)
(* Closed versions                                                         *)
(***************************************************************************)
\* C19: closed versions are immutable.  A row of the target whose end_date
\* is not NULL is, after any step, still there and equal in every field.
C19_ClosedImmutable ==
    [][\A i \in 1..Len(target) :
          target[i].end_date # NULL =>
             /\ i <= Len(target')
             /\ target'[i] = target[i]]_vars

\* a version-apply closed the current version of a key and inserted a new
\* one while the key had a closed version already
C19_Witness ==
    /\ Applied
    /\ \E i, j \in 1..Len(before) :
          /\ before[i].cust_id = before[j].cust_id
          /\ before[i].end_date # NULL
          /\ before[j].end_date = NULL
          /\ target[j].end_date # NULL
          /\ target[i] = before[i]
          /\ NewRowsOf(before[i].cust_id) # {}


(***************************************************************************)
(* Writers of the source between the steps                                 *)
(***************************************************************************)
\* the values of the source row of key k are in staging or in the target
Captured(k) ==
    \/ InTarget(k)
    \/ \E n \in 1..Len(stg_jun25) :
          /\ stg_jun25[n].col1_id = k
          /\ stg_jun25[n].desc = src_jun25[k].desc

\* C20: no lost update.  A source row whose values are neither in staging
\* nor in the target is still ahead of the stored watermark: its
\* created_date or modified_date is greater than that of some control row,
\* so that the strict comparison of a later incremental load selects it.
C20_NoLostUpdate ==
    \A k \in DOMAIN src_jun25 :
        (control_table # <<>> /\ ~Captured(k)) =>
            \E i \in ControlRows : Newer(src_jun25[k], control_table[i])

=============================================================================
